---- MODULE Spec2Model ----
(***************************************************************************)
(* A model of the X (Twitter) poll bot: the TwitterPollBot class           *)
(* (verifyCredentials, uploadImage, createPoll, schedulePoll,              *)
(* cancelScheduledPolls) and the entry point (createPollWithRetry, the     *)
(* main IIFE and the signal handlers).                                     *)
(*                                                                         *)
(* JavaScript runs one callback at a time; an async function runs          *)
(* synchronously up to its next await.  Every action below is therefore    *)
(* "one call, or one awaited result arriving, run up to the next await".   *)
(* Remote results (identity call, file read, upload, post creation) are    *)
(* inputs, drawn from small sets.                                          *)
(***************************************************************************)
EXTENDS Integers, Sequences, FiniteSets, TLC

VARIABLES
    proc,            \* the process of the entry point: state and exit code
    retry,           \* the activation of createPollWithRetry
    delivered,       \* the results the remote side has delivered to the current attempt
    now,             \* the clock (new Date()), in ticks
    scheduledPolls,  \* TwitterPollBot.scheduledPolls
    timers,          \* the setTimeout handles schedulePoll has created
    scheduleCalls,   \* the activations of schedulePoll
    cancelledUpTo    \* how many timers existed when cancelScheduledPolls last ran

vars == <<proc, retry, delivered, now, scheduledPolls, timers, scheduleCalls, cancelledUpTo>>

schedulerVars == <<now, scheduledPolls, timers, scheduleCalls, cancelledUpTo>>
entryVars == <<proc, retry, delivered>>

-----------------------------------------------------------------------------
(* Bounds of the model *)

MaxOptions == 5        \* option lists of length 0..MaxOptions
MaxRetries == 3        \* createPollWithRetry is called with retries in 0..MaxRetries
MaxTime == 1           \* the clock runs over 0..MaxTime
MaxScheduleCalls == 2  \* schedulePoll is called at most this many times
MaxDurationHours == 2  \* durationHours, when supplied, is in 0..MaxDurationHours

(* Program constants *)

MaxPollOptions == 4            \* options.length > 4
MinutesPerHour == 60           \* hours to minutes
FallbackDurationHours == 24    \* config.defaultDurationHours || 24
RetryDelayMs == 60000          \* setTimeout(resolve, 60000)

-----------------------------------------------------------------------------
(* Values *)

Undefined == "undefined"

\* An error object.  `'code' in error` is "code" \in DOMAIN error.
Error(message) == [kind |-> "Error", message |-> message]
ApiResponseError(code) ==
    [kind |-> "ApiResponseError", code |-> code, message |-> "Request failed"]
\* A request that got no HTTP response: an Error without a code.
ApiRequestError == [kind |-> "ApiRequestError", message |-> "Request failed"]
\* fs.readFile rejects with a system error, whose code is a string.
FileError == [kind |-> "SystemError", code |-> "ENOENT", message |-> "no such file"]
NoError == [kind |-> "none"]

HasCode(error) == "code" \in DOMAIN error

\* The errors a remote call can fail with.
RemoteErrors ==
    {ApiResponseError(c) : c \in {"401", "403", "429", "500"}} \cup {ApiRequestError}

\* Messages of the errors the bot itself creates.
MsgInvalidCredentials == "Invalid X API credentials"
MsgNoPermissions == "Account does not have required permissions"
MsgTitleAndOptionsRequired == "Poll title and options are required"
MsgTooManyOptions == "Maximum 4 options are allowed for a poll"
MsgRateLimit == "Rate limit exceeded. Please try again later."
MsgUnableToCreate == "Unable to create poll"
MsgUnsupportedFormat == "Unsupported image format"
MsgMustBeFuture == "scheduledTime must be in the future"
MsgConfigNotFound == "Poll configuration not found"
MsgMissingCredentials == "Missing X API credentials"

\* Identifiers the remote service hands out.
UserIds == {"u1"}
MediaIds == {"m1", "m2"}
TweetIds == {"t1", "t2"}

\* A result arriving at an await.
Ok(value) == [ok |-> TRUE, value |-> value]
Fail(error) == [ok |-> FALSE, error |-> error]

-----------------------------------------------------------------------------
(* File paths are sequences of characters, so that path.extname and          *)
(* toLowerCase are computed, not assumed.                                    *)

ToLowerCase(c) ==
    CASE c = "P" -> "p" [] c = "N" -> "n" [] c = "G" -> "g"
      [] c = "J" -> "j" [] c = "E" -> "e" [] c = "I" -> "i"
      [] c = "F" -> "f" [] c = "W" -> "w" [] c = "B" -> "b"
      [] c = "M" -> "m" [] c = "A" -> "a"
      [] OTHER -> c

LowerCase(s) == [k \in 1..Len(s) |-> ToLowerCase(s[k])]

LastIndexOf(s, c) ==
    LET hits == {k \in 1..Len(s) : s[k] = c}
    IN  IF hits = {} THEN 0 ELSE CHOOSE k \in hits : \A j \in hits : j <= k

\* path.extname: from the last "." of the last path segment to the end; empty
\* when there is no "." or the segment starts with its only ".".
ExtName(filePath) ==
    LET start == LastIndexOf(filePath, "/") + 1
        dot == LastIndexOf(filePath, ".")
        preceded == \E k \in start..(dot - 1) : filePath[k] # "."
    IN  IF dot < start \/ dot = start \/ ~preceded
        THEN <<>>
        ELSE SubSeq(filePath, dot, Len(filePath))

MimeTypes ==
    (<<".", "p", "n", "g">> :> "image/png")
    @@ (<<".", "j", "p", "g">> :> "image/jpeg")
    @@ (<<".", "j", "p", "e", "g">> :> "image/jpeg")
    @@ (<<".", "g", "i", "f">> :> "image/gif")
    @@ (<<".", "w", "e", "b", "p">> :> "image/webp")

\* getMimeType: the MIME type, or Undefined where the code throws.
GetMimeType(filePath) ==
    LET ext == LowerCase(ExtName(filePath))
    IN  IF ext \in DOMAIN MimeTypes THEN MimeTypes[ext] ELSE Undefined

ImagePaths ==
    { <<"a", ".", "p", "n", "g">>,
      <<"a", ".", "P", "N", "G">>,
      <<"d", "/", "a", ".", "j", "p", "g">>,
      <<"a", ".", "j", "p", "e", "g">>,
      <<"a", ".", "g", "i", "f">>,
      <<"a", ".", "w", "e", "b", "p">>,
      <<"a", ".", "b", "m", "p">>,
      <<"a", ".", "d", "/", "p", "n", "g">>,
      <<".", "p", "n", "g">> }

-----------------------------------------------------------------------------
(* Poll definitions.  An optional field that is not supplied is a field the  *)
(* record does not have.                                                     *)

Has(r, f) == f \in DOMAIN r

Options(k) == [i \in 1..k |-> i]    \* k option texts

PollDatas ==
    { [title |-> t, options |-> Options(k)] @@ d @@ p :
        t \in {"", "T"},
        k \in 0..MaxOptions,
        d \in {<<>>} \cup {("durationHours" :> h) : h \in 0..MaxDurationHours},
        p \in {<<>>, ("imagePath" :> <<>>)} \cup {("imagePath" :> f) : f \in ImagePaths} }

-----------------------------------------------------------------------------
(* Remote calls and log records.  Every activation keeps the calls it has    *)
(* issued and the records it has logged, in order.                           *)

MeCall == [op |-> "v2.me"]
ReadFileCall(imagePath) == [op |-> "fs.readFile", path |-> imagePath]
UploadMediaCall(mimeType) == [op |-> "v1.uploadMedia", mimeType |-> mimeType]
TweetCall(params) == [op |-> "v2.tweet", params |-> params]

LogRecord(level, message, meta) == [level |-> level, message |-> message, meta |-> meta]

\* Calls that go over the network (a file read does not).
IsNetworkCall(call) == call.op \in {"v2.me", "v1.uploadMedia", "v2.tweet"}

CountCalls(calls, op) == Cardinality({k \in 1..Len(calls) : calls[k].op = op})

-----------------------------------------------------------------------------
(* verifyCredentials *)

\* VerifyCredentialsCatch wrapping every other error in a new Error.
VerifyCredentialsCatchWrapping(error) ==
    IF HasCode(error) /\ error.code = "401" THEN Error(MsgInvalidCredentials)
    ELSE IF HasCode(error) /\ error.code = "403" THEN Error(MsgNoPermissions)
    ELSE Error(error.message)

\* The catch block of verifyCredentials: the error it throws for the error
\* the identity call failed with.
VerifyCredentialsCatch(error) ==
    IF HasCode(error) /\ error.code = "401" THEN Error(MsgInvalidCredentials)
    ELSE IF HasCode(error) /\ error.code = "403" THEN Error(MsgNoPermissions)
    ELSE error

-----------------------------------------------------------------------------
(* createPoll.  An activation ("frame") of createPoll is a record            *)
(*   pc        the await it is suspended at, or "returned" / "thrown"        *)
(*   pollData  its argument                                                  *)
(*   duration, mediaId, reply_to   its locals                                *)
(*   calls, log   what it has issued and logged                              *)
(*   result    tweet.data when it returned                                   *)
(*   error     the error it threw                                            *)

DefaultDurationHours == FallbackDurationHours

NoFrame == [pc |-> "none"]

\* Duration without the conversion from hours to minutes.
DurationWithoutConversion(pollData) ==
    IF Has(pollData, "durationHours") /\ pollData.durationHours # 0
    THEN pollData.durationHours
    ELSE DefaultDurationHours

\* Duration falling back to the default only for an absent durationHours.
DurationNullish(pollData) ==
    (IF Has(pollData, "durationHours")
     THEN pollData.durationHours
     ELSE DefaultDurationHours) * MinutesPerHour

\* durationHours || defaultDurationHours, times 60
Duration(pollData) ==
    (IF Has(pollData, "durationHours") /\ pollData.durationHours # 0
     THEN pollData.durationHours
     ELSE DefaultDurationHours) * MinutesPerHour

HasImage(pollData) == Has(pollData, "imagePath") /\ pollData.imagePath # <<>>

\* CreatePollCatch throwing a 429 again as it is.
CreatePollCatchKeeping429(frame, error) ==
    LET apiLog ==
            IF HasCode(error)
            THEN <<LogRecord("error", "X API error",
                             [code |-> error.code, message |-> error.message])>>
            ELSE <<>>
        remapped == HasCode(error) /\ error.code = "403"
        pollLog ==
            IF remapped THEN <<>>
            ELSE <<LogRecord("error", "Error creating poll",
                             [error |-> error.message,
                              title |-> frame.pollData.title,
                              options |-> frame.pollData.options])>>
    IN  [frame EXCEPT !.pc = "thrown",
                      !.error = IF remapped THEN Error(MsgUnableToCreate) ELSE error,
                      !.log = frame.log \o apiLog \o pollLog]

\* CreatePollCatch throwing every other error as a new Error without its code.
CreatePollCatchDroppingCode(frame, error) ==
    LET apiLog ==
            IF HasCode(error)
            THEN <<LogRecord("error", "X API error",
                             [code |-> error.code, message |-> error.message])>>
            ELSE <<>>
        remapped == HasCode(error) /\ error.code \in {"429", "403"}
        thrown ==
            IF HasCode(error) /\ error.code = "429" THEN Error(MsgRateLimit)
            ELSE IF HasCode(error) /\ error.code = "403" THEN Error(MsgUnableToCreate)
            ELSE Error(error.message)
        pollLog ==
            IF remapped THEN <<>>
            ELSE <<LogRecord("error", "Error creating poll",
                             [error |-> error.message,
                              title |-> frame.pollData.title,
                              options |-> frame.pollData.options])>>
    IN  [frame EXCEPT !.pc = "thrown",
                      !.error = thrown,
                      !.log = frame.log \o apiLog \o pollLog]

\* The catch block of createPoll.
CreatePollCatch(frame, error) ==
    LET apiLog ==
            IF HasCode(error)
            THEN <<LogRecord("error", "X API error",
                             [code |-> error.code, message |-> error.message])>>
            ELSE <<>>
        remapped == HasCode(error) /\ error.code \in {"429", "403"}
        thrown ==
            IF HasCode(error) /\ error.code = "429" THEN Error(MsgRateLimit)
            ELSE IF HasCode(error) /\ error.code = "403" THEN Error(MsgUnableToCreate)
            ELSE error
        pollLog ==
            IF remapped THEN <<>>
            ELSE <<LogRecord("error", "Error creating poll",
                             [error |-> error.message,
                              title |-> frame.pollData.title,
                              options |-> frame.pollData.options])>>
    IN  [frame EXCEPT !.pc = "thrown",
                      !.error = thrown,
                      !.log = frame.log \o apiLog \o pollLog]

\* The catch block of uploadImage, inside createPoll's try.
UploadImageCatch(frame, error) ==
    CreatePollCatch(
        [frame EXCEPT !.log = Append(frame.log,
            LogRecord("error", "Error uploading image",
                      [error |-> error.message, imagePath |-> frame.pollData.imagePath]))],
        error)

\* The fixed text of a poll post that replies to an image post (in the source
\* a Japanese sentence asking for votes).
PlaceholderText == "please vote"

\* TweetParams repeating the title in the poll post of a reply.
TweetParamsRepeatingTitle(pollData, duration, reply_to) ==
    [text |-> pollData.title,
     poll |-> [options |-> pollData.options, duration_minutes |-> duration]]
    @@ (IF reply_to # Undefined
        THEN ("reply" :> [in_reply_to_tweet_id |-> reply_to])
        ELSE <<>>)

\* The poll post's parameters.
TweetParams(pollData, duration, reply_to) ==
    [text |-> IF reply_to # Undefined THEN PlaceholderText ELSE pollData.title,
     poll |-> [options |-> pollData.options, duration_minutes |-> duration]]
    @@ (IF reply_to # Undefined
        THEN ("reply" :> [in_reply_to_tweet_id |-> reply_to])
        ELSE <<>>)

\* The image post's parameters.
ImageTweetParams(pollData, mediaId) ==
    [text |-> pollData.title, media |-> [media_ids |-> <<mediaId>>]]

\* Builds the poll post and issues client.v2.tweet(tweetParams).
SubmitPoll(frame) ==
    [frame EXCEPT !.pc = "tweetPoll",
                  !.calls = Append(frame.calls,
                      TweetCall(TweetParams(frame.pollData, frame.duration, frame.reply_to)))]

\* uploadImage up to its first await: fs.readFile(imagePath).
UploadImage(frame) ==
    [frame EXCEPT !.pc = "readFile",
                  !.calls = Append(frame.calls, ReadFileCall(frame.pollData.imagePath))]

\* Validate without the check of the maximal number of options.
ValidateWithoutMaximum(frame) ==
    LET pollData == frame.pollData
    IN  IF pollData.title = "" \/ Len(pollData.options) = 0
        THEN CreatePollCatch(frame, Error(MsgTitleAndOptionsRequired))
        ELSE LET withDuration == [frame EXCEPT !.duration = Duration(pollData)]
             IN  IF HasImage(pollData)
                 THEN UploadImage(withDuration)
                 ELSE SubmitPoll(withDuration)

\* createPoll after verifyCredentials has returned: validation, duration, and
\* the first call of the image branch or of the poll post.
Validate(frame) ==
    LET pollData == frame.pollData
    IN  IF pollData.title = "" \/ Len(pollData.options) = 0
        THEN CreatePollCatch(frame, Error(MsgTitleAndOptionsRequired))
        ELSE IF Len(pollData.options) > MaxPollOptions
        THEN CreatePollCatch(frame, Error(MsgTooManyOptions))
        ELSE LET withDuration == [frame EXCEPT !.duration = Duration(pollData)]
             IN  IF HasImage(pollData)
                 THEN UploadImage(withDuration)
                 ELSE SubmitPoll(withDuration)

\* createPoll(pollData) up to its first await: verifyCredentials issues the
\* identity call.
CreatePoll(pollData) ==
    [pc |-> "me", pollData |-> pollData, duration |-> 0,
     mediaId |-> Undefined, reply_to |-> Undefined,
     calls |-> <<MeCall>>, log |-> <<>>,
     result |-> Undefined, error |-> NoError]

\* The identity call's result arrives.
ResumeMe(frame, out) ==
    IF out.ok
    THEN Validate([frame EXCEPT !.log = Append(frame.log,
             LogRecord("info", "X API credentials verified successfully",
                       [userId |-> out.value]))])
    ELSE CreatePollCatch(frame, VerifyCredentialsCatch(out.error))

\* fs.readFile's result arrives: getMimeType, then client.v1.uploadMedia.
ResumeReadFile(frame, out) ==
    LET mimeType == GetMimeType(frame.pollData.imagePath)
    IN  IF ~out.ok THEN UploadImageCatch(frame, out.error)
        ELSE IF mimeType = Undefined
        THEN UploadImageCatch(frame, Error(MsgUnsupportedFormat))
        ELSE [frame EXCEPT
                !.pc = "uploadMedia",
                !.log = Append(frame.log,
                    LogRecord("info", "Uploading image",
                              [imagePath |-> frame.pollData.imagePath,
                               mimeType |-> mimeType, size |-> out.value])),
                !.calls = Append(frame.calls, UploadMediaCall(mimeType))]

\* ResumeUploadMedia going on to the poll post without an image when the
\* upload has failed.
ResumeUploadMediaFallingBack(frame, out) ==
    IF ~out.ok THEN SubmitPoll(frame)
    ELSE [frame EXCEPT
            !.pc = "tweetImage",
            !.mediaId = out.value,
            !.log = Append(frame.log,
                LogRecord("info", "Image uploaded successfully", [mediaId |-> out.value])),
            !.calls = Append(frame.calls,
                TweetCall(ImageTweetParams(frame.pollData, out.value)))]

\* The upload's result arrives: uploadImage returns the media id and
\* createPoll posts the image.
ResumeUploadMedia(frame, out) ==
    IF ~out.ok THEN UploadImageCatch(frame, out.error)
    ELSE [frame EXCEPT
            !.pc = "tweetImage",
            !.mediaId = out.value,
            !.log = Append(frame.log,
                LogRecord("info", "Image uploaded successfully", [mediaId |-> out.value])),
            !.calls = Append(frame.calls,
                TweetCall(ImageTweetParams(frame.pollData, out.value)))]

\* ResumeTweetImage replying to the media id instead of the image post's id.
ResumeTweetImageReplyToMedia(frame, out) ==
    IF ~out.ok THEN CreatePollCatch(frame, out.error)
    ELSE SubmitPoll([frame EXCEPT
            !.reply_to = frame.mediaId,
            !.log = Append(frame.log,
                LogRecord("info", "Image post created successfully",
                          [tweetId |-> out.value]))])

\* The image post's result arrives: its id is the reply target.
ResumeTweetImage(frame, out) ==
    IF ~out.ok THEN CreatePollCatch(frame, out.error)
    ELSE SubmitPoll([frame EXCEPT
            !.reply_to = out.value,
            !.log = Append(frame.log,
                LogRecord("info", "Image post created successfully",
                          [tweetId |-> out.value]))])

\* The poll post's result arrives.
ResumeTweetPoll(frame, out) ==
    IF ~out.ok THEN CreatePollCatch(frame, out.error)
    ELSE [frame EXCEPT
            !.pc = "returned",
            !.result = out.value,
            !.log = Append(frame.log,
                LogRecord("info", "Poll created successfully", [tweetId |-> out.value]))]

Suspended(frame) == frame.pc \in {"me", "readFile", "uploadMedia", "tweetImage", "tweetPoll"}

\* The results that can arrive at the await a frame is suspended at.
Outcomes(frame) ==
    CASE frame.pc = "me" -> {Ok(u) : u \in UserIds} \cup {Fail(e) : e \in RemoteErrors}
      [] frame.pc = "readFile" -> {Ok(1), Fail(FileError)}
      [] frame.pc = "uploadMedia" -> {Ok(m) : m \in MediaIds} \cup {Fail(e) : e \in RemoteErrors}
      [] frame.pc \in {"tweetImage", "tweetPoll"} ->
            {Ok(t) : t \in TweetIds} \cup {Fail(e) : e \in RemoteErrors}
      [] OTHER -> {}

\* createPoll from one await to the next.
Resume(frame, out) ==
    CASE frame.pc = "me" -> ResumeMe(frame, out)
      [] frame.pc = "readFile" -> ResumeReadFile(frame, out)
      [] frame.pc = "uploadMedia" -> ResumeUploadMedia(frame, out)
      [] frame.pc = "tweetImage" -> ResumeTweetImage(frame, out)
      [] frame.pc = "tweetPoll" -> ResumeTweetPoll(frame, out)

-----------------------------------------------------------------------------
(* The constructor, and the configuration the entry point builds from the    *)
(* environment.  A configuration is a record whose fields may be absent.     *)

\* The credentials in the order the constructor lists them.
CredentialFields ==
    << [field |-> "apiKey", label |-> "API Key"],
       [field |-> "apiSecret", label |-> "API Secret"],
       [field |-> "accessToken", label |-> "Access Token"],
       [field |-> "accessSecret", label |-> "Access Secret"] >>

\* IsMissing taking only an absent credential for missing.
IsMissingAbsentOnly(config, field) == ~Has(config, field)

\* !value, for a credential: absent or the empty string.
IsMissing(config, field) == ~Has(config, field) \/ config[field] = ""

\* The labels of the missing credentials, in order.
MissingCredentials(config) ==
    LET missing == SelectSeq(CredentialFields, LAMBDA c : IsMissing(config, c.field))
    IN  [k \in 1..Len(missing) |-> missing[k].label]

\* new TwitterPollBot(config): the error it throws, or the bot's fields.
Constructor(config) ==
    IF Len(MissingCredentials(config)) > 0
    THEN [kind |-> "thrown",
          error |-> [kind |-> "Error", message |-> MsgMissingCredentials,
                     missing |-> MissingCredentials(config)]]
    ELSE [kind |-> "bot",
          client |-> [appKey |-> config.apiKey, appSecret |-> config.apiSecret,
                      accessToken |-> config.accessToken,
                      accessSecret |-> config.accessSecret],
          defaultDurationHours |->
              IF Has(config, "defaultDurationHours") /\ config.defaultDurationHours # 0
              THEN config.defaultDurationHours
              ELSE FallbackDurationHours,
          scheduledPolls |-> <<>>]

\* Number.parseInt(text, 10) on the texts used here.
ParseInt == ("24" :> 24) @@ ("0" :> 0)

\* The environments the program is started in: each credential variable
\* unset, empty or set, and the duration variable unset, "0" or "24".
EnvCredentials ==
    {"TWITTER_API_KEY", "TWITTER_API_SECRET", "TWITTER_ACCESS_TOKEN", "TWITTER_ACCESS_SECRET"}
Envs ==
    { f : f \in UNION { [names -> {"", "k"}] : names \in SUBSET EnvCredentials } }
EnvDurations == {<<>>, ("POLL_DEFAULT_DURATION_HOURS" :> "0"),
                 ("POLL_DEFAULT_DURATION_HOURS" :> "24")}

\* process.env.X ?? fallback
EnvOr(env, name, fallback) == IF Has(env, name) THEN env[name] ELSE fallback

\* The configuration the entry point passes to the constructor.
EnvConfig(env) ==
    [apiKey |-> EnvOr(env, "TWITTER_API_KEY", ""),
     apiSecret |-> EnvOr(env, "TWITTER_API_SECRET", ""),
     accessToken |-> EnvOr(env, "TWITTER_ACCESS_TOKEN", ""),
     accessSecret |-> EnvOr(env, "TWITTER_ACCESS_SECRET", ""),
     defaultDurationHours |-> ParseInt[EnvOr(env, "POLL_DEFAULT_DURATION_HOURS", "24")]]

\* The module fails to load: the constructor's error is not caught and the
\* process ends with exit code 1 before the IIFE and the signal handlers.
Uncaught(env, error) ==
    [state |-> "exited", code |-> 1, by |-> "uncaught", env |-> env, error |-> error]

-----------------------------------------------------------------------------
(* The entry point: createPollWithRetry, the main IIFE, the signal handlers. *)
(* retry is the activation of createPollWithRetry:                           *)
(*   pc        "notCalled", "createPoll" (awaiting bot.createPoll), "delay"  *)
(*             (awaiting the 60 s timer), "returned" or "thrown"             *)
(*   i, retries, pollConfig   its loop variable, parameter and local         *)
(*   frame     the createPoll activation of the current (or last) attempt    *)
(*   error     the error it threw                                            *)
(*   attempts, outcomes, delays, log   history: the number of createPoll     *)
(*             calls, how each ended, the delays waited (ms), the log        *)
(*             (without the text of the errors' messages)                    *)
(*   imagePosts, pollPosts   history: the image posts and the poll posts     *)
(*             the remote service has created for this run                   *)

DefaultRetries == 3

RetryNotCalled ==
    [pc |-> "notCalled", pollConfig |-> [title |-> "", options |-> <<>>],
     retries |-> 0, i |-> 0, frame |-> NoFrame, error |-> NoError,
     attempts |-> 0, outcomes |-> <<>>, delays |-> <<>>, log |-> <<>>,
     imagePosts |-> 0, pollPosts |-> 0]

\* RetryLoop leaving the image out of every attempt after the first.
RetryLoopWithoutImage(r) ==
    IF r.i < r.retries
    THEN [r EXCEPT !.pc = "createPoll",
                   !.frame = CreatePoll(
                        IF r.i > 0
                        THEN [f \in DOMAIN r.pollConfig \ {"imagePath"} |-> r.pollConfig[f]]
                        ELSE r.pollConfig),
                   !.attempts = r.attempts + 1]
    ELSE [r EXCEPT !.pc = "returned"]

\* The loop test and, when it passes, the call bot.createPoll(pollConfig).
RetryLoop(r) ==
    IF r.i < r.retries
    THEN [r EXCEPT !.pc = "createPoll",
                   !.frame = CreatePoll(r.pollConfig),
                   !.attempts = r.attempts + 1]
    ELSE [r EXCEPT !.pc = "returned"]

\* createPollWithRetry up to its first await.  found is whether
\* getPollByIndex / getDefaultPoll returned a configuration.
CreatePollWithRetry(found, pollConfig, retries) ==
    IF ~found
    THEN [RetryNotCalled EXCEPT !.pc = "thrown", !.retries = retries,
                                !.error = Error(MsgConfigNotFound)]
    ELSE RetryLoop([RetryNotCalled EXCEPT !.pollConfig = pollConfig,
                                          !.retries = retries])

\* IsLastAttempt off by one.
IsLastAttemptOffByOne(i, retries) == i = retries

\* Whether the catch block of the loop re-throws: the last attempt has failed.
IsLastAttempt(i, retries) == i = retries - 1

\* The loop's catch block, for the frame that threw.
RetryCatch(r, frame) ==
    LET logged == [r EXCEPT
            !.frame = frame,
            !.outcomes = Append(r.outcomes, "failed"),
            !.log = Append(r.log,
                LogRecord("error", "Poll creation attempt failed",
                          [attempt |-> r.i + 1]))]
    IN  IF IsLastAttempt(r.i, r.retries)
        THEN [logged EXCEPT !.pc = "thrown", !.error = frame.error]
        ELSE [logged EXCEPT !.pc = "delay",
                            !.delays = Append(r.delays, RetryDelayMs)]

\* RetryAttempt without the return after a successful createPoll.
RetryAttemptWithoutReturn(r, frame) ==
    IF frame.pc = "returned"
    THEN RetryLoop([r EXCEPT !.i = r.i + 1, !.frame = frame,
                             !.outcomes = Append(r.outcomes, "ok")])
    ELSE IF frame.pc = "thrown" THEN RetryCatch(r, frame)
    ELSE [r EXCEPT !.frame = frame]

\* bot.createPoll settles, or is still suspended at its next await.
RetryAttempt(r, frame) ==
    IF frame.pc = "returned"
    THEN [r EXCEPT !.pc = "returned", !.frame = frame,
                   !.outcomes = Append(r.outcomes, "ok")]
    ELSE IF frame.pc = "thrown" THEN RetryCatch(r, frame)
    ELSE [r EXCEPT !.frame = frame]

\* History: the post-create call the attempt was suspended at has succeeded,
\* so the remote service has created an image post or a poll post.
Posted(r, pc, out) ==
    [r EXCEPT !.imagePosts = @ + (IF pc = "tweetImage" /\ out.ok THEN 1 ELSE 0),
              !.pollPosts = @ + (IF pc = "tweetPoll" /\ out.ok THEN 1 ELSE 0)]

\* The delay has elapsed: i++ and the loop test.
RetryDelayElapsed(r) == RetryLoop([r EXCEPT !.i = r.i + 1])

\* MainSettle exiting with code 0 also from the catch block.
MainSettleAlwaysZero(r) ==
    IF r.pc \in {"returned", "thrown"}
    THEN [state |-> "exited", code |-> 0, by |-> "main"]
    ELSE [state |-> "running"]

\* The main IIFE after createPollWithRetry has settled: process.exit.
MainSettle(r) ==
    IF r.pc = "returned" THEN [state |-> "exited", code |-> 0, by |-> "main"]
    ELSE IF r.pc = "thrown" THEN [state |-> "exited", code |-> 1, by |-> "main"]
    ELSE [state |-> "running"]

Running == proc.state = "running"

\* The program starts: the module constructs the bot from the environment,
\* and the IIFE calls createPollWithRetry(pollIndex).
Main ==
    /\ proc.state = "start"
    /\ \E env \in Envs, duration \in EnvDurations :
          LET bot == Constructor(EnvConfig(env @@ duration))
          IN  IF bot.kind = "thrown"
              THEN /\ proc' = Uncaught(env @@ duration, bot.error)
                   /\ retry' = retry
              ELSE /\ bot.defaultDurationHours = DefaultDurationHours
                   /\ bot.scheduledPolls = scheduledPolls
                   /\ \E found \in BOOLEAN, pollConfig \in PollDatas,
                         retries \in 0..MaxRetries :
                         /\ found \/ (pollConfig = RetryNotCalled.pollConfig
                                        /\ retries = DefaultRetries)
                         /\ retry' = CreatePollWithRetry(found, pollConfig, retries)
                         /\ proc' = MainSettle(retry')
    /\ UNCHANGED <<delivered, schedulerVars>>

\* A result arrives at the await the current attempt is suspended at.
AttemptResume ==
    /\ Running
    /\ retry.pc = "createPoll"
    /\ \E out \in Outcomes(retry.frame) :
          /\ retry' = Posted(RetryAttempt(retry, Resume(retry.frame, out)),
                             retry.frame.pc, out)
          /\ delivered' = Append(delivered, out)
          /\ proc' = MainSettle(retry')
    /\ UNCHANGED schedulerVars

\* The inter-attempt timer fires.
DelayElapsed ==
    /\ Running
    /\ retry.pc = "delay"
    /\ retry' = RetryDelayElapsed(retry)
    /\ delivered' = <<>>
    /\ proc' = MainSettle(retry')
    /\ UNCHANGED schedulerVars

Signals == {"SIGTERM", "SIGINT"}

\* SignalHandler exiting with code 1.
SignalHandlerExitOne(sig) == [state |-> "exited", code |-> 1, by |-> sig]

\* The handler of SIGTERM / SIGINT: log and process.exit(0).
SignalHandler(sig) == [state |-> "exited", code |-> 0, by |-> sig]

\* SIGTERM or SIGINT is delivered: the handler logs and exits 0.
Signal ==
    /\ Running
    /\ \E sig \in Signals : proc' = SignalHandler(sig)
    /\ UNCHANGED <<retry, delivered, schedulerVars>>

\* SIGTERM or SIGINT arrives while the module is still loading: process.on
\* has not run yet (it follows the IIFE, whose synchronous part starts the
\* first attempt), so the signal's default action ends the process; there is
\* no exit code of the program's choosing.
EarlySignal ==
    /\ proc.state = "start"
    /\ \E sig \in Signals : proc' = [state |-> "killed", signal |-> sig]
    /\ UNCHANGED <<retry, delivered, schedulerVars>>

Init ==
    /\ proc = [state |-> "start"]
    /\ retry = RetryNotCalled
    /\ delivered = <<>>
    /\ now = 0
    /\ scheduledPolls = <<>>
    /\ timers = <<>>
    /\ scheduleCalls = <<>>
    /\ cancelledUpTo = 0

Next == Main \/ AttemptResume \/ DelayElapsed \/ Signal \/ EarlySignal

Spec == Init /\ [][Next]_vars

-----------------------------------------------------------------------------
(* The scheduler: schedulePoll, its timer callback, cancelScheduledPolls.    *)
(* scheduleCalls[k] is the k-th activation of schedulePoll:                  *)
(*   pc   "me" (awaiting verifyCredentials), "returned" or "thrown"          *)
(*   pollData, scheduledTime   its arguments;  calledAt  the clock at call   *)
(*   checkedAt   the clock it read into `now` (-1 before that)               *)
(*   calls, log, error   as for createPoll                                   *)
(*   timer   the index of the timer it created (0: none)                     *)
(*   delivered   the result the identity call settled with                   *)
(* timers[j] is a setTimeout handle:                                         *)
(*   state   "pending", "cleared" (clearTimeout) or "fired"                  *)
(*   dueAt   creation time + delay                                           *)
(*   frame   the createPoll activation of its callback, once fired; when it  *)
(*           has settled the callback is over and only what createPoll       *)
(*           issued and how it ended is kept                                 *)
(*   log     what the callback's catch block logged (without the text of     *)
(*           the error's message)                                            *)

\* The poll definitions schedulePoll is called with.
SchedulePollDatas ==
    { p \in PollDatas :
        /\ p.title = "T"
        /\ Len(p.options) = 2
        /\ ~Has(p, "durationHours")
        /\ ~Has(p, "imagePath") }

\* InFuture accepting a fire time equal to the clock.
InFutureOrNow(scheduledTime, clock) == ~(scheduledTime < clock)

\* scheduledTime <= now fails.
InFuture(scheduledTime, clock) == ~(scheduledTime <= clock)

\* schedulePoll(pollData, scheduledTime) up to its first await.
SchedulePoll(pollData, scheduledTime, clock) ==
    [pc |-> "me", pollData |-> pollData, scheduledTime |-> scheduledTime,
     calledAt |-> clock, checkedAt |-> -1, calls |-> <<MeCall>>, log |-> <<>>,
     error |-> NoError, timer |-> 0, delivered |-> <<>>]

\* The catch block of schedulePoll.
SchedulePollCatch(call, error) ==
    [call EXCEPT
        !.pc = "thrown",
        !.error = error,
        !.log = Append(call.log,
            LogRecord("error", "Error scheduling poll",
                      [error |-> error.message, pollData |-> call.pollData,
                       scheduledTime |-> call.scheduledTime]))]

\* setTimeout(callback, scheduledTime - now)
SetTimeout(pollData, delay, clock) ==
    [state |-> "pending", pollData |-> pollData, dueAt |-> clock + delay,
     frame |-> NoFrame, log |-> <<>>]

\* ClearTimeout stopping a callback that is already running.
ClearTimeoutAbortingFired(timer) == [timer EXCEPT !.state = "cleared"]

\* clearTimeout(timer): a pending timer never fires; one that has fired is
\* left as it is.
ClearTimeout(timer) ==
    IF timer.state = "pending" THEN [timer EXCEPT !.state = "cleared"] ELSE timer

\* TimerCallback with an empty catch block.
TimerCallbackWithoutLog(timer, frame) ==
    [timer EXCEPT
        !.state = "fired",
        !.frame = IF Suspended(frame) THEN frame
                  ELSE [pc |-> frame.pc, calls |-> frame.calls]]

\* The timer callback: try { await this.createPoll(pollData) } catch { log }.
TimerCallback(timer, frame) ==
    [timer EXCEPT
        !.state = "fired",
        !.frame = IF Suspended(frame) THEN frame
                  ELSE [pc |-> frame.pc, calls |-> frame.calls],
        !.log = IF frame.pc = "thrown"
                THEN Append(timer.log,
                        LogRecord("error", "Error creating scheduled poll",
                                  [thrown |-> TRUE]))
                ELSE timer.log]

\* CancelTimers forgetting the registry's last entry.
CancelTimersButLast(registry, allTimers) ==
    [j \in 1..Len(allTimers) |->
        IF \E k \in 1..(Len(registry) - 1) : registry[k].timer = j
        THEN ClearTimeout(allTimers[j])
        ELSE allTimers[j]]

\* The timers cancelScheduledPolls clears: those of the registry's entries.
CancelTimers(registry, allTimers) ==
    [j \in 1..Len(allTimers) |->
        IF \E k \in 1..Len(registry) : registry[k].timer = j
        THEN ClearTimeout(allTimers[j])
        ELSE allTimers[j]]

\* SchedulePollSettle registering the timer whatever the credential check
\* said.
SchedulePollSettleUnverified(call, out, clock, handle) ==
    IF ~InFuture(call.scheduledTime, clock)
    THEN SchedulePollCatch([call EXCEPT !.checkedAt = clock], Error(MsgMustBeFuture))
    ELSE [call EXCEPT
            !.checkedAt = clock,
            !.pc = "returned",
            !.timer = handle,
            !.log = Append(call.log,
                LogRecord("info", "Scheduling poll",
                          [pollData |-> call.pollData,
                           scheduledTime |-> call.scheduledTime]))]

\* SchedulePollSettle comparing the fire time with the clock as it was when
\* schedulePoll was called.
SchedulePollSettleAtCallTime(call, out, clock, handle) ==
    LET verified == [call EXCEPT
            !.checkedAt = clock,
            !.log = Append(call.log,
                LogRecord("info", "X API credentials verified successfully",
                          [userId |-> out.value]))]
    IN  IF ~out.ok
        THEN SchedulePollCatch(call, VerifyCredentialsCatch(out.error))
        ELSE IF ~InFuture(call.scheduledTime, call.calledAt)
        THEN SchedulePollCatch(verified, Error(MsgMustBeFuture))
        ELSE [verified EXCEPT
                !.pc = "returned",
                !.timer = handle,
                !.log = Append(verified.log,
                    LogRecord("info", "Scheduling poll",
                              [pollData |-> call.pollData,
                               scheduledTime |-> call.scheduledTime]))]

\* SchedulePollSettle checking the fire time before the credentials.
SchedulePollSettleTimeFirst(call, out, clock, handle) ==
    LET verified == [call EXCEPT !.checkedAt = clock]
    IN  IF ~InFuture(call.scheduledTime, clock)
        THEN SchedulePollCatch(verified, Error(MsgMustBeFuture))
        ELSE IF ~out.ok
        THEN SchedulePollCatch(call, VerifyCredentialsCatch(out.error))
        ELSE [verified EXCEPT !.pc = "returned", !.timer = handle]

\* schedulePoll after verifyCredentials has settled with out, the clock
\* reading clock: the catch block, or the checks and the registration of the
\* timer handle.
\* scheduledTime is a valid Date throughout (a clock value), so the
\* instanceof check passes.
SchedulePollSettle(call, out, clock, handle) ==
    LET verified == [call EXCEPT
            !.checkedAt = clock,
            !.log = Append(call.log,
                LogRecord("info", "X API credentials verified successfully",
                          [userId |-> out.value]))]
    IN  IF ~out.ok
        THEN SchedulePollCatch(call, VerifyCredentialsCatch(out.error))
        ELSE IF ~InFuture(call.scheduledTime, clock)
        THEN SchedulePollCatch(verified, Error(MsgMustBeFuture))
        ELSE [verified EXCEPT
                !.pc = "returned",
                !.timer = handle,
                !.log = Append(verified.log,
                    LogRecord("info", "Scheduling poll",
                              [pollData |-> call.pollData,
                               scheduledTime |-> call.scheduledTime]))]

\* A client calls schedulePoll.
SchedulePollCall ==
    /\ Len(scheduleCalls) < MaxScheduleCalls
    /\ \E pollData \in SchedulePollDatas, scheduledTime \in 0..MaxTime :
          scheduleCalls' = Append(scheduleCalls, SchedulePoll(pollData, scheduledTime, now))
    /\ UNCHANGED <<entryVars, now, scheduledPolls, timers, cancelledUpTo>>

\* verifyCredentials settles inside schedulePoll: on success the fire time is
\* checked against the clock and the entry is pushed with its new timer.
SchedulePollResume ==
    /\ \E k \in 1..Len(scheduleCalls) :
        /\ scheduleCalls[k].pc = "me"
        /\ \E out \in Outcomes(scheduleCalls[k]) :
            LET call == scheduleCalls[k]
                settled == [SchedulePollSettle(call, out, now, Len(timers) + 1)
                                EXCEPT !.delivered = <<out>>]
            IN  /\ scheduleCalls' = [scheduleCalls EXCEPT ![k] = settled]
                /\ IF settled.pc = "returned"
                   THEN /\ timers' = Append(timers,
                               SetTimeout(call.pollData, call.scheduledTime - now, now))
                        /\ scheduledPolls' = Append(scheduledPolls,
                               [pollData |-> call.pollData,
                                scheduledTime |-> call.scheduledTime,
                                timer |-> settled.timer])
                   ELSE UNCHANGED <<scheduledPolls, timers>>
    /\ UNCHANGED <<entryVars, now, cancelledUpTo>>

\* A pending timer is due: its callback calls createPoll.
TimerFire ==
    /\ \E j \in 1..Len(timers) :
          /\ timers[j].state = "pending"
          /\ timers[j].dueAt <= now
          /\ timers' = [timers EXCEPT
                ![j] = TimerCallback(timers[j], CreatePoll(timers[j].pollData))]
    /\ UNCHANGED <<entryVars, now, scheduledPolls, scheduleCalls, cancelledUpTo>>

\* A result arrives at the await a fired callback's createPoll is suspended at.
TimerResume ==
    /\ \E j \in 1..Len(timers) :
          /\ timers[j].state = "fired"
          /\ \E out \in Outcomes(timers[j].frame) :
                timers' = [timers EXCEPT
                    ![j] = TimerCallback(timers[j], Resume(timers[j].frame, out))]
    /\ UNCHANGED <<entryVars, now, scheduledPolls, scheduleCalls, cancelledUpTo>>

\* CallsAfterCancel making the schedulePoll calls that still await their
\* credential check fail.
CallsAfterCancelAborted(calls) ==
    [k \in 1..Len(calls) |->
        IF calls[k].pc = "me"
        THEN [calls[k] EXCEPT !.pc = "thrown", !.error = Error("cancelled")]
        ELSE calls[k]]

\* What cancelScheduledPolls does to the schedulePoll calls in progress:
\* nothing, it only walks the registry.
CallsAfterCancel(calls) == calls

\* A client calls cancelScheduledPolls.
CancelScheduledPolls ==
    /\ timers' = CancelTimers(scheduledPolls, timers)
    /\ scheduledPolls' = <<>>
    /\ cancelledUpTo' = Len(timers)
    /\ scheduleCalls' = CallsAfterCancel(scheduleCalls)
    /\ UNCHANGED <<entryVars, now>>

\* Time passes.
Tick ==
    /\ now < MaxTime
    /\ now' = now + 1
    /\ UNCHANGED <<entryVars, scheduledPolls, timers, scheduleCalls, cancelledUpTo>>

SchedulerNext ==
    \/ SchedulePollCall
    \/ SchedulePollResume
    \/ TimerFire
    \/ TimerResume
    \/ CancelScheduledPolls
    \/ Tick

SchedulerSpec == Init /\ [][SchedulerNext]_vars

-----------------------------------------------------------------------------
(* Properties of createPoll, read off the createPoll activation of the       *)
(* current (or last) attempt of the entry point.                             *)

Frame == retry.frame
Called == Frame.pc # "none"

IsInvalidPollData(error) ==
    error.message \in {MsgTitleAndOptionsRequired, MsgTooManyOptions}
IsUnsupportedFormat(error) == error.message = MsgUnsupportedFormat

NetworkCalls(calls) == {k \in 1..Len(calls) : IsNetworkCall(calls[k])}

BadOptions(pollData) ==
    Len(pollData.options) = 0 \/ Len(pollData.options) > MaxPollOptions

\* The identity call of the current attempt has succeeded.
Verified == Len(delivered) >= 1 /\ delivered[1].ok

C2_UnsupportedBeforeIO ==
    (Called /\ HasImage(Frame.pollData)
        /\ GetMimeType(Frame.pollData.imagePath) = Undefined) =>
            /\ CountCalls(Frame.calls, "fs.readFile") = 0
            /\ CountCalls(Frame.calls, "v1.uploadMedia") = 0
            /\ (Frame.pc = "thrown" /\ Len(delivered) >= 2) =>
                    IsUnsupportedFormat(Frame.error)

-----------------------------------------------------------------------------
(* Properties of createPollWithRetry *)

Outcome(k) == retry.outcomes[k]
Attempted == 1..Len(retry.outcomes)

\* C6: when createPoll fails on attempts 1..k-1 and succeeds on attempt
\* k <= N, exactly k attempts and k-1 delays occur, the wrapper returns and
\* makes no further attempt.
C6_RetryUntilSuccess ==
    \A k \in Attempted :
        Outcome(k) = "ok" =>
            /\ k = Len(retry.outcomes)
            /\ \A j \in 1..(k - 1) : Outcome(j) = "failed"
            /\ k <= retry.retries
            /\ retry.attempts = k
            /\ Len(retry.delays) = k - 1
            /\ retry.pc = "returned"
            /\ retry.error = NoError
            /\ Frame.pc = "returned"
            /\ delivered[Len(delivered)].ok

\* Two attempts have failed and the third has succeeded.
C6_Witness ==
    /\ retry.outcomes = <<"failed", "failed", "ok">>
    /\ retry.attempts = 3
    /\ Len(retry.delays) = 2
    /\ retry.pc = "returned"

\* The error createPoll re-throws as it is for the error err it caught.
PassedThrough(err) == ~HasCode(err) \/ err.code \notin {"401", "403", "429"}

\* C7: with N >= 1 attempts and a createPoll that fails every time, exactly
\* N attempts and N-1 delays occur: every failure but the N-th is followed by
\* one delay of the same length whatever the error, the N-th by none, and the
\* wrapper throws the error of the N-th attempt unchanged.
C7_RetryExhausted ==
    LET n == Len(retry.outcomes)
    IN  (retry.retries >= 1 /\ n >= 1 /\ \A j \in Attempted : Outcome(j) = "failed") =>
            /\ n <= retry.retries
            /\ \A d \in 1..Len(retry.delays) : retry.delays[d] = RetryDelayMs
            /\ n < retry.retries =>
                    /\ retry.pc \in {"delay", "createPoll"}
                    /\ Len(retry.delays) = n
                    /\ retry.attempts = IF retry.pc = "delay" THEN n ELSE n + 1
            /\ n = retry.retries =>
                    /\ retry.pc = "thrown"
                    /\ retry.attempts = n
                    /\ Len(retry.delays) = n - 1
                    /\ Frame.pc = "thrown"
                    /\ retry.error = Frame.error
                    /\ LET last == delivered[Len(delivered)]
                       IN  (~last.ok /\ PassedThrough(last.error)) =>
                                retry.error = last.error

\* Three attempts out of three have failed and the wrapper has thrown.
C7_Witness ==
    /\ retry.retries = 3
    /\ retry.outcomes = <<"failed", "failed", "failed">>
    /\ retry.pc = "thrown"
    /\ retry.attempts = 3
    /\ Len(retry.delays) = 2
    /\ retry.error = ApiResponseError("500")

\* C8 as stated: a validation error (InvalidPollData, UnsupportedFormat) is
\* never retried: after it the wrapper waits no delay and makes no further
\* attempt.
C8_ValidationNotRetried ==
    (Called /\ Frame.pc = "thrown"
        /\ (IsInvalidPollData(Frame.error) \/ IsUnsupportedFormat(Frame.error))) =>
            retry.pc # "delay"

-----------------------------------------------------------------------------
(* The calls of a successful createPoll *)

\* C9: createPoll for a definition with no image never reads a file or
\* uploads, and when it returns it has issued exactly the identity call and
\* then one post-create call, with the poll's options and duration_minutes
\* (hours x 60: 60 for durationHours 1) and without reply and media fields.
C9_PollWithoutImage ==
    (Called /\ ~HasImage(Frame.pollData)) =>
        /\ CountCalls(Frame.calls, "fs.readFile") = 0
        /\ CountCalls(Frame.calls, "v1.uploadMedia") = 0
        /\ Frame.pc = "returned" =>
            /\ Len(Frame.calls) = 2
            /\ Frame.calls[1] = MeCall
            /\ Frame.calls[2].op = "v2.tweet"
            /\ LET params == Frame.calls[2].params
                   pollData == Frame.pollData
               IN  /\ DOMAIN params = {"text", "poll"}
                   /\ params.poll.options = pollData.options
                   /\ (Has(pollData, "durationHours") /\ pollData.durationHours = 1) =>
                          params.poll.duration_minutes = 60
                   /\ (Has(pollData, "durationHours") /\ pollData.durationHours > 0) =>
                          params.poll.duration_minutes = pollData.durationHours * 60

\* The scenario of the claim has run to its end.
C9_Witness ==
    /\ Called
    /\ Frame.pollData = [title |-> "T", options |-> <<1, 2>>, durationHours |-> 1]
    /\ Frame.pc = "returned"
    /\ Len(Frame.calls) = 2
    /\ Frame.calls[2].params.poll.duration_minutes = 60

HasExtension(pollData, ext) ==
    HasImage(pollData) /\ LowerCase(ExtName(pollData.imagePath)) = ext

\* C10: when createPoll for a definition whose image path has the extension
\* .png returns, it has issued, in this order and once each: the identity
\* call, (the file read,) the upload with mime type image/png, the image post
\* with the media handle the upload returned, and the poll post replying to
\* the id the image post returned.
C10_PollWithImage ==
    (Called /\ Frame.pc = "returned"
        /\ HasExtension(Frame.pollData, <<".", "p", "n", "g">>)) =>
            /\ Len(Frame.calls) = 5
            /\ Len(delivered) = 5
            /\ Frame.calls[1] = MeCall
            /\ Frame.calls[2] = ReadFileCall(Frame.pollData.imagePath)
            /\ Frame.calls[3] = UploadMediaCall("image/png")
            /\ Frame.calls[4] = TweetCall(
                    [text |-> Frame.pollData.title,
                     media |-> [media_ids |-> <<delivered[3].value>>]])
            /\ Frame.calls[5].op = "v2.tweet"
            /\ LET params == Frame.calls[5].params
               IN  /\ DOMAIN params = {"text", "poll", "reply"}
                   /\ params.reply = [in_reply_to_tweet_id |-> delivered[4].value]
                   /\ params.poll.options = Frame.pollData.options

\* A poll with a .png image has been created; the upload and the image post
\* returned ids that tell the media handle from the reply target.
C10_Witness ==
    /\ Called
    /\ Frame.pc = "returned"
    /\ Frame.pollData.title = "T"
    /\ HasExtension(Frame.pollData, <<".", "p", "n", "g">>)
    /\ Frame.pollData.imagePath = <<"a", ".", "P", "N", "G">>
    /\ Len(Frame.calls) = 5
    /\ Frame.mediaId = "m1"
    /\ Frame.reply_to = "t2"

-----------------------------------------------------------------------------
(* Properties of the scheduler *)

Calls == 1..Len(scheduleCalls)
Timers == 1..Len(timers)
Registry == 1..Len(scheduledPolls)

\* C3: once cancelScheduledPolls has run, the registry holds no entry
\* registered before it, and no timer created before it is pending: none of
\* them fires afterwards, however far time advances.  A cleared timer has
\* called createPoll never: it has issued no remote call and logged nothing.
C3_CancelPreventsFiring ==
    /\ \A j \in Timers : j <= cancelledUpTo => timers[j].state # "pending"
    /\ \A j \in Timers :
            timers[j].state = "cleared" =>
                timers[j].frame = NoFrame /\ timers[j].log = <<>>
    /\ \A k \in Registry : scheduledPolls[k].timer > cancelledUpTo
    /\ cancelledUpTo = Len(timers) => scheduledPolls = <<>>

\* Two schedulePoll calls have completed, cancelScheduledPolls has run, and
\* time has reached both fire times without a deferred createPoll.
C3_Witness ==
    /\ Len(timers) = 2
    /\ cancelledUpTo = 2
    /\ scheduledPolls = <<>>
    /\ \A j \in Timers :
            /\ timers[j].state = "cleared"
            /\ timers[j].dueAt <= now
            /\ timers[j].frame = NoFrame
    /\ \A k \in Calls : scheduleCalls[k].pc = "returned"

IsInvalidSchedule(error) == error.kind # "none" /\ error.message = MsgMustBeFuture

\* The identity call of schedulePoll call k has succeeded / failed.
CallVerified(k) ==
    Len(scheduleCalls[k].delivered) = 1 /\ scheduleCalls[k].delivered[1].ok
CallRefused(k) ==
    Len(scheduleCalls[k].delivered) = 1 /\ ~scheduleCalls[k].delivered[1].ok

\* The fire time of call k was not later than the clock when it was called.
NotLater(k) == scheduleCalls[k].scheduledTime <= scheduleCalls[k].calledAt

\* Every timer and every registry entry belongs to a returned schedulePoll call.
RegisteredBy(j, k) == scheduleCalls[k].pc = "returned" /\ scheduleCalls[k].timer = j

\* C4 as stated: schedulePoll with a fire time earlier than or equal to the
\* current time always fails with InvalidSchedule and registers nothing.
C4_AsStated ==
    \A k \in Calls :
        (NotLater(k) /\ scheduleCalls[k].pc # "me") =>
            /\ scheduleCalls[k].pc = "thrown"
            /\ IsInvalidSchedule(scheduleCalls[k].error)
            /\ scheduleCalls[k].timer = 0

\* C4 amended: schedulePoll with a fire time earlier than or equal to the
\* current time always fails and leaves the registry unchanged (no entry, no
\* timer): with InvalidSchedule when its credential check succeeds, and with
\* the credential check's error when that fails.
C4_PastTimeRegistersNothing ==
    /\ \A k \in Calls :
            (NotLater(k) /\ scheduleCalls[k].pc # "me") =>
                /\ scheduleCalls[k].pc = "thrown"
                /\ scheduleCalls[k].timer = 0
                /\ CallVerified(k) => IsInvalidSchedule(scheduleCalls[k].error)
                /\ CallRefused(k) =>
                        scheduleCalls[k].error =
                            VerifyCredentialsCatch(scheduleCalls[k].delivered[1].error)
    /\ \A j \in Timers : \E k \in Calls : RegisteredBy(j, k) /\ ~NotLater(k)
    /\ \A e \in Registry :
            \E k \in Calls : RegisteredBy(scheduledPolls[e].timer, k) /\ ~NotLater(k)

\* A schedulePoll call for the current instant has failed with
\* InvalidSchedule, next to a call that has registered its entry.
C4_Witness ==
    \E k, m \in Calls :
        /\ scheduleCalls[k].scheduledTime = scheduleCalls[k].calledAt
        /\ scheduleCalls[k].pc = "thrown"
        /\ IsInvalidSchedule(scheduleCalls[k].error)
        /\ scheduleCalls[m].pc = "returned"
        /\ Len(scheduledPolls) = 1
        /\ Len(timers) = 1

\* C5 as stated: the fire-time check comes before the credential check: a
\* call that fails with InvalidSchedule has issued no network call.
C5_AsStated ==
    \A k \in Calls :
        IsInvalidSchedule(scheduleCalls[k].error) => scheduleCalls[k].calls = <<>>

\* C5 amended: the credential check comes before the fire-time check.  A call
\* that fails with InvalidSchedule has issued exactly one network call, the
\* identity lookup, and that lookup succeeded; the fire time is examined only
\* once the credentials are verified, so a call whose lookup fails fails with
\* the credential check's error whatever its fire time.
C5_CredentialsBeforeFireTime ==
    \A k \in Calls :
        /\ IsInvalidSchedule(scheduleCalls[k].error) =>
                /\ scheduleCalls[k].calls = <<MeCall>>
                /\ CallVerified(k)
                /\ scheduleCalls[k].checkedAt >= scheduleCalls[k].calledAt
        /\ CallRefused(k) =>
                /\ scheduleCalls[k].pc = "thrown"
                /\ ~IsInvalidSchedule(scheduleCalls[k].error)
                /\ scheduleCalls[k].checkedAt = -1
        /\ scheduleCalls[k].checkedAt >= 0 => CallVerified(k)

\* One call has failed with InvalidSchedule after a successful identity
\* call; another, for a past fire time too, has failed its credential check.
C5_Witness ==
    \E k, m \in Calls :
        /\ IsInvalidSchedule(scheduleCalls[k].error)
        /\ scheduleCalls[k].calls = <<MeCall>>
        /\ CallVerified(k)
        /\ NotLater(m)
        /\ CallRefused(m)
        /\ scheduleCalls[m].error = Error(MsgInvalidCredentials)

-----------------------------------------------------------------------------
(* The posts of a createPoll: title placement and duration *)

\* The post-create calls among calls that carry a poll / a media attachment.
PollPosts(calls) ==
    {k \in 1..Len(calls) : calls[k].op = "v2.tweet" /\ Has(calls[k].params, "poll")}
ImagePosts(calls) ==
    {k \in 1..Len(calls) : calls[k].op = "v2.tweet" /\ Has(calls[k].params, "media")}
PostsWithText(calls, text) ==
    {k \in 1..Len(calls) : calls[k].op = "v2.tweet" /\ calls[k].params.text = text}

\* C11: when an image post was created the poll post's body is the fixed
\* placeholder text and the title is in the image post only; without an image
\* the poll post's body is the title.  Either way exactly one created post
\* carries the title.
C11_TitlePlacement ==
    Called =>
        /\ \A k \in ImagePosts(Frame.calls) :
                /\ Frame.calls[k].params.text = Frame.pollData.title
                /\ ~Has(Frame.calls[k].params, "poll")
        /\ \A k \in PollPosts(Frame.calls) :
                IF ImagePosts(Frame.calls) # {}
                THEN /\ Frame.calls[k].params.text = PlaceholderText
                     /\ Frame.calls[k].params.text # Frame.pollData.title
                     /\ Has(Frame.calls[k].params, "reply")
                ELSE /\ Frame.calls[k].params.text = Frame.pollData.title
                     /\ ~HasImage(Frame.pollData)
        /\ Frame.pc = "returned" =>
                /\ Cardinality(PollPosts(Frame.calls)) = 1
                /\ Cardinality(ImagePosts(Frame.calls)) =
                        (IF HasImage(Frame.pollData) THEN 1 ELSE 0)
                /\ Cardinality(PostsWithText(Frame.calls, Frame.pollData.title)) = 1

\* An image post and the poll post replying to it have both been created.
C11_Witness ==
    /\ Called
    /\ Frame.pc = "returned"
    /\ HasImage(Frame.pollData)
    /\ Len(Frame.calls) = 5
    /\ Frame.calls[4].params.text = "T"
    /\ Frame.calls[5].params.text = PlaceholderText

Supplied(pollData) == Has(pollData, "durationHours")

\* C12 as stated: duration_minutes is durationHours x 60 for every duration
\* value the definition supplies, and defaultDurationHours x 60 exactly when
\* it supplies none.
C12_AsStated ==
    Called =>
        \A k \in PollPosts(Frame.calls) :
            LET minutes == Frame.calls[k].params.poll.duration_minutes
            IN  /\ Supplied(Frame.pollData) =>
                        minutes = Frame.pollData.durationHours * 60
                /\ ~Supplied(Frame.pollData) => minutes = 24 * 60

\* C12 amended: duration_minutes is durationHours x 60 for every non-zero
\* duration value the definition supplies, and defaultDurationHours x 60 when
\* it supplies none or supplies 0 (the fallback is taken for every falsy
\* value, not only for an absent one).
C12_DurationMinutes ==
    Called =>
        \A k \in PollPosts(Frame.calls) :
            LET minutes == Frame.calls[k].params.poll.duration_minutes
            IN  /\ (Supplied(Frame.pollData) /\ Frame.pollData.durationHours # 0) =>
                        minutes = Frame.pollData.durationHours * 60
                /\ (Supplied(Frame.pollData) /\ Frame.pollData.durationHours = 0) =>
                        minutes = 24 * 60
                /\ ~Supplied(Frame.pollData) => minutes = 24 * 60

\* A poll post for a definition that supplies durationHours 0 has been
\* created with the default duration.
C12_Witness ==
    /\ Called
    /\ Frame.pc = "returned"
    /\ Supplied(Frame.pollData)
    /\ Frame.pollData.durationHours = 0
    /\ \E k \in PollPosts(Frame.calls) :
            Frame.calls[k].params.poll.duration_minutes = 1440

-----------------------------------------------------------------------------
(* verifyCredentials, observed where schedulePoll awaits it: schedulePoll's  *)
(* catch rethrows what verifyCredentials threw.                              *)

\* The error the claims expect of the credential check for the error e of
\* the identity call.
ExpectedCredentialError(e) ==
    IF e = ApiResponseError("401") THEN Error(MsgInvalidCredentials)
    ELSE IF e = ApiResponseError("403") THEN Error(MsgNoPermissions)
    ELSE e

\* C13: verifyCredentials makes exactly one identity call and maps its
\* outcome: on success it returns normally (the caller goes on to its own
\* checks), on HTTP 401 it fails with InvalidCredentials, on HTTP 403 with
\* InsufficientPermissions, and any other error is thrown again as it is.
C13_VerifyCredentialsMapping ==
    \A k \in 1..Len(scheduleCalls) :
        LET call == scheduleCalls[k]
        IN  /\ call.calls = <<MeCall>>
            /\ call.pc = "me" => call.delivered = <<>>
            /\ call.pc # "me" =>
                /\ Len(call.delivered) = 1
                /\ LET out == call.delivered[1]
                   IN  IF out.ok
                       THEN /\ call.checkedAt >= 0
                            /\ call.error \in {NoError, Error(MsgMustBeFuture)}
                            /\ call.log[1].message = "X API credentials verified successfully"
                       ELSE /\ call.pc = "thrown"
                            /\ out.error = ApiResponseError("401") =>
                                    call.error = Error(MsgInvalidCredentials)
                            /\ out.error = ApiResponseError("403") =>
                                    call.error = Error(MsgNoPermissions)
                            /\ out.error \notin {ApiResponseError("401"), ApiResponseError("403")} =>
                                    call.error = out.error

\* The credential check has failed once with 401, and once with an error it
\* passes on (one with another code, or one without a code).
C13_Witness ==
    /\ \E k \in 1..Len(scheduleCalls) :
            /\ scheduleCalls[k].pc = "thrown"
            /\ scheduleCalls[k].delivered = <<Fail(ApiResponseError("401"))>>
    /\ \E k \in 1..Len(scheduleCalls) :
            /\ scheduleCalls[k].pc = "thrown"
            /\ scheduleCalls[k].delivered \in
                    {<<Fail(ApiResponseError("429"))>>, <<Fail(ApiRequestError)>>}

-----------------------------------------------------------------------------
(* The failures of createPoll *)

\* The credential check of the current createPoll has failed.
CredentialCheckFailed ==
    Called /\ Len(delivered) = 1 /\ ~delivered[1].ok

\* C14 as stated: when the credential check fails inside createPoll,
\* createPoll fails with exactly the error the check raised, for every
\* failure of the identity call (401, 403, 429, any other code, no code).
C14_AsStated ==
    CredentialCheckFailed =>
        /\ Frame.pc = "thrown"
        /\ Frame.error = ExpectedCredentialError(delivered[1].error)

\* C14 amended: when the credential check fails inside createPoll, createPoll
\* fails with exactly the error the check raised for every failure of the
\* identity call except HTTP 429 (401 and 403 as mapped by the check, any
\* other code, no code); a 429 of the identity call is turned into
\* RateLimited by createPoll's own catch block.
C14_CredentialFailurePropagation ==
    CredentialCheckFailed =>
        /\ Frame.pc = "thrown"
        /\ Frame.calls = <<MeCall>>
        /\ IF delivered[1].error = ApiResponseError("429")
           THEN /\ Frame.error = Error(MsgRateLimit)
                /\ Frame.error # ExpectedCredentialError(delivered[1].error)
           ELSE Frame.error = ExpectedCredentialError(delivered[1].error)

\* The identity call of a createPoll has failed with 429.
C14_Witness ==
    /\ CredentialCheckFailed
    /\ delivered[1].error = ApiResponseError("429")
    /\ Frame.pc = "thrown"

\* The last call the current createPoll issued is the poll post, and it failed.
PollPostFailed ==
    /\ Called
    /\ Frame.pc = "thrown"
    /\ Len(delivered) = Len(Frame.calls)
    /\ Len(Frame.calls) \in PollPosts(Frame.calls)
    /\ ~delivered[Len(delivered)].ok

\* C15: when the submission of the poll post fails, createPoll fails with
\* RateLimited for HTTP 429, with InsufficientPermissions for HTTP 403, and
\* with the upstream error itself, code and message intact, otherwise.
C15_PollPostFailureMapping ==
    PollPostFailed =>
        LET e == delivered[Len(delivered)].error
        IN  /\ e = ApiResponseError("429") => Frame.error = Error(MsgRateLimit)
            /\ e = ApiResponseError("403") => Frame.error = Error(MsgUnableToCreate)
            /\ e \notin {ApiResponseError("429"), ApiResponseError("403")} =>
                    /\ Frame.error = e
                    /\ HasCode(e) => Frame.error.code = e.code
                    /\ Frame.error.message = e.message

\* A poll post has failed with an error that has a code other than 429 and 403.
C15_Witness ==
    /\ PollPostFailed
    /\ delivered[Len(delivered)].error = ApiResponseError("500")
    /\ Frame.error = ApiResponseError("500")

\* The records of log that carry the poll's title, its options and the error.
ContextRecords(log, pollData, error) ==
    {k \in 1..Len(log) :
        /\ Has(log[k].meta, "title") /\ log[k].meta.title = pollData.title
        /\ Has(log[k].meta, "options") /\ log[k].meta.options = pollData.options
        /\ Has(log[k].meta, "error") /\ log[k].meta.error = error.message}

\* The error the current createPoll's catch block caught: the credential
\* check's error, a validation error, or the failure of its last call.
Caught ==
    IF Len(delivered) = 1 /\ ~delivered[1].ok
        THEN ExpectedCredentialError(delivered[1].error)
    ELSE IF delivered[Len(delivered)].ok THEN Frame.error
    ELSE delivered[Len(delivered)].error

\* C16: on every failure path of createPoll (credential failure, validation
\* failure, upload failure, image post failure, poll post failure with 429,
\* with 403 or with any other error) a record with the poll's title, its
\* options and the error has been logged when the error is thrown.
C16_FailureLogged ==
    (Called /\ Frame.pc = "thrown") =>
        ContextRecords(Frame.log, Frame.pollData, Caught) # {}

-----------------------------------------------------------------------------
(* The scheduler's registry and the life of an entry *)

\* The timers of the registry's entries.
RegistryTimers == {scheduledPolls[e].timer : e \in Registry}

\* C17: the registry holds only pending entries: no entry of the registry has
\* a timer that has already fired (an entry is removed when it is cancelled
\* and when it fires).
C17_OnlyPending ==
    \A j \in RegistryTimers : timers[j].state = "pending"

\* Sequence s begins with sequence p.
StartsWith(s, p) == Len(s) >= Len(p) /\ SubSeq(s, 1, Len(p)) = p

\* What one step may do to timer j: a cancelled entry stays as it is; a fired
\* entry stays fired, and its createPoll stands still or moves on from the
\* calls it has made; a scheduled entry stays, is cancelled, or fires when
\* it is due by starting one createPoll.
EntryStep(j) ==
    LET before == timers[j]
        after == timers'[j]
    IN  /\ before.state = "cleared" => after = before
        /\ before.state = "fired" =>
                /\ after.state = "fired"
                /\ IF Suspended(before.frame)
                   THEN \/ after = before
                        \/ /\ StartsWith(after.frame.calls, before.frame.calls)
                           /\ after.frame.pc # before.frame.pc
                   ELSE after = before
        /\ before.state = "pending" =>
                \/ after = before
                \/ after = [before EXCEPT !.state = "cleared"]
                \/ /\ after.state = "fired"
                   /\ before.dueAt <= now
                   /\ after.frame.pc = "me"
                   /\ after.frame.calls = <<MeCall>>

\* The state of every entry: scheduled or cancelled without any createPoll, or
\* fired with one createPoll that is in flight and can go on, has returned, or
\* has thrown and been logged.
EntryState(j) ==
    LET t == timers[j]
    IN  /\ t.state \in {"pending", "cleared", "fired"}
        /\ t.state \in {"pending", "cleared"} => t.frame = NoFrame /\ t.log = <<>>
        /\ t.state = "fired" =>
                /\ t.frame.pc \in {"me", "tweetPoll", "returned", "thrown"}
                /\ CountCalls(t.frame.calls, "v2.me") = 1
                /\ Suspended(t.frame) => Outcomes(t.frame) # {} /\ t.log = <<>>
                /\ t.frame.pc = "returned" => t.log = <<>>
                /\ t.frame.pc = "thrown" =>
                        /\ Len(t.log) = 1
                        /\ t.log[1].message = "Error creating scheduled poll"

\* C18: each scheduled entry goes from Scheduled to Fired or to Cancelled,
\* both terminal and mutually exclusive: it fires at most once, a cancelled
\* entry never fires, and a fired entry's createPoll is never stopped or
\* started again, by cancelScheduledPolls or by anything else, and ends
\* returned or thrown and logged.
C18_EntryLifecycle ==
    /\ [](\A j \in Timers : EntryState(j))
    /\ [][/\ Len(timers') >= Len(timers)
          /\ \A j \in Timers : EntryStep(j)]_vars

\* cancelScheduledPolls has run while the createPoll of a fired entry was in
\* flight, and that createPoll has gone on to its poll post; another entry
\* was cancelled.
C18_Witness ==
    \E j, c \in Timers :
        /\ timers[j].state = "fired"
        /\ timers[j].frame.pc = "tweetPoll"
        /\ cancelledUpTo >= j
        /\ timers[c].state = "cleared"

\* The createPoll of fired entry j has thrown.
DeferredFailed(j) == timers[j].state = "fired" /\ timers[j].frame.pc = "thrown"

\* The error of schedulePoll call k comes from its own credential check and
\* its own fire-time check only.
OwnError(k) ==
    LET call == scheduleCalls[k]
    IN  IF call.delivered = <<>> THEN call.error = NoError
        ELSE IF call.delivered[1].ok
            THEN call.error \in {NoError, Error(MsgMustBeFuture)}
        ELSE call.error = ExpectedCredentialError(call.delivered[1].error)

\* The registry is what the schedulePoll calls since the last
\* cancelScheduledPolls registered, in order, whatever has fired or failed.
RegistryIntact ==
    /\ Len(scheduledPolls) = Len(timers) - cancelledUpTo
    /\ \A e \in Registry :
            /\ scheduledPolls[e].timer = cancelledUpTo + e
            /\ scheduledPolls[e].pollData = timers[cancelledUpTo + e].pollData

\* C19: an error of the deferred createPoll of a fired entry is logged and
\* dropped: the schedulePoll call that registered the entry has returned
\* without an error and no schedulePoll call fails with anything but its own
\* checks' errors, the entry's createPoll ran once and is not run again, and
\* the registry is as the registrations and cancellations left it.
C19_DeferredErrorDropped ==
    \A j \in Timers :
        DeferredFailed(j) =>
            /\ timers[j].log =
                    <<LogRecord("error", "Error creating scheduled poll", [thrown |-> TRUE])>>
            /\ \E k \in Calls :
                    /\ RegisteredBy(j, k)
                    /\ scheduleCalls[k].error = NoError
                    /\ Len(scheduleCalls[k].log) = 2
            /\ \A k \in Calls : OwnError(k)
            /\ CountCalls(timers[j].frame.calls, "v2.me") = 1
            /\ Len(timers[j].frame.calls) <= 2
            /\ RegistryIntact

\* The deferred createPoll of an entry that is still in the registry has
\* thrown at its poll post.
C19_Witness ==
    \E j \in Timers :
        /\ DeferredFailed(j)
        /\ Len(timers[j].frame.calls) = 2
        /\ j \in RegistryTimers
        /\ Len(timers[j].log) = 1

\* C20: a schedulePoll whose credential check fails (401, 403 or any other
\* error of the identity call) fails with the error verifyCredentials maps it
\* to and registers nothing: it has no timer handle, no timer and no registry
\* entry is its own, so no deferred createPoll runs for it.
C20_RefusedRegistersNothing ==
    /\ \A k \in Calls :
            CallRefused(k) =>
                /\ scheduleCalls[k].pc = "thrown"
                /\ scheduleCalls[k].error =
                        ExpectedCredentialError(scheduleCalls[k].delivered[1].error)
                /\ scheduleCalls[k].timer = 0
                /\ scheduleCalls[k].calls = <<MeCall>>
                /\ \A j \in Timers : ~RegisteredBy(j, k)
    /\ \A j \in Timers : \E k \in Calls : RegisteredBy(j, k) /\ CallVerified(k)
    /\ \A e \in Registry :
            \E k \in Calls : RegisteredBy(scheduledPolls[e].timer, k) /\ CallVerified(k)
    /\ Len(timers) = Cardinality({k \in Calls : scheduleCalls[k].pc = "returned"})

\* A schedulePoll for a later fire time was refused with 403 and another was
\* accepted: there is exactly one timer.
C20_Witness ==
    /\ \E k \in Calls :
            /\ CallRefused(k)
            /\ scheduleCalls[k].delivered[1].error = ApiResponseError("403")
            /\ scheduleCalls[k].scheduledTime > scheduleCalls[k].calledAt
            /\ scheduleCalls[k].error = Error(MsgNoPermissions)
    /\ \E k \in Calls : scheduleCalls[k].pc = "returned"
    /\ Len(timers) = 1

-----------------------------------------------------------------------------
(* Construction, exit codes and signals of the entry point *)

\* The environment variable of each credential, by the label it is listed
\* with.
CredentialVariable ==
    ("API Key" :> "TWITTER_API_KEY") @@ ("API Secret" :> "TWITTER_API_SECRET")
    @@ ("Access Token" :> "TWITTER_ACCESS_TOKEN")
    @@ ("Access Secret" :> "TWITTER_ACCESS_SECRET")

\* The labels of the credentials that are unset or empty in env, in the
\* order API Key, API Secret, Access Token, Access Secret.
ExpectedMissing(env) ==
    SelectSeq(<<"API Key", "API Secret", "Access Token", "Access Secret">>,
              LAMBDA label : \/ CredentialVariable[label] \notin DOMAIN env
                             \/ env[CredentialVariable[label]] = "")

ConstructionFailed == proc.state = "exited" /\ proc.by = "uncaught"

\* C21: constructing the bot with any of the four credentials empty or absent
\* fails with an error that lists exactly the missing credentials, before a
\* client is created and before any call is made; with all four non-empty
\* the construction succeeds with an empty registry.
C21_MissingCredentials ==
    /\ ConstructionFailed =>
            /\ ExpectedMissing(proc.env) # <<>>
            /\ proc.error.message = MsgMissingCredentials
            /\ proc.error.missing = ExpectedMissing(proc.env)
            /\ retry = RetryNotCalled
            /\ delivered = <<>>
            /\ scheduleCalls = <<>> /\ timers = <<>>
    /\ proc.state = "start" =>
            \A env \in Envs :
                LET bot == Constructor(EnvConfig(env))
                IN  IF ExpectedMissing(env) # <<>>
                    THEN /\ bot.kind = "thrown"
                         /\ ~Has(bot, "client")
                         /\ bot.error.missing = ExpectedMissing(env)
                    ELSE /\ bot.kind = "bot"
                         /\ bot.scheduledPolls = <<>>
                         /\ bot.client.appKey = env.TWITTER_API_KEY
                         /\ bot.client.accessSecret = env.TWITTER_ACCESS_SECRET
    /\ (proc.state # "start" /\ ~ConstructionFailed) => scheduledPolls = <<>>

\* The program was started with one credential unset and another empty, and
\* the construction failed listing these two.
C21_Witness ==
    /\ ConstructionFailed
    /\ "TWITTER_API_SECRET" \notin DOMAIN proc.env
    /\ "TWITTER_ACCESS_SECRET" \in DOMAIN proc.env
    /\ proc.env.TWITTER_ACCESS_SECRET = ""
    /\ proc.error.missing = <<"API Secret", "Access Secret">>

Exited == proc.state = "exited"

\* The wrapper was called as the IIFE calls it: with at least one attempt to
\* make (the IIFE passes no retries argument).
CalledAsByMain == retry.pc = "notCalled" \/ retry.retries >= 1

\* The wrapper returned after a createPoll that created the poll post.
WrapperSucceeded ==
    /\ retry.pc = "returned"
    /\ retry.frame.pc = "returned"
    /\ PollPosts(retry.frame.calls) # {}

\* The wrapper raised: the poll definition does not exist, or every one of
\* its attempts has failed.
WrapperRaised ==
    /\ retry.pc = "thrown"
    /\ \/ retry.attempts = 0 /\ retry.error = Error(MsgConfigNotFound)
       \/ /\ retry.attempts = retry.retries
          /\ retry.outcomes = [k \in 1..retry.retries |-> "failed"]

\* C22 as stated: the entry point exits with code 0 exactly when the wrapper
\* returned success and with code 1 exactly when the wrapper raised (attempts
\* exhausted, or no such poll definition).
C22_AsStated ==
    (Exited /\ CalledAsByMain) =>
        /\ proc.code = 0 <=> WrapperSucceeded
        /\ proc.code = 1 <=> WrapperRaised

\* C22 amended: once the bot is constructed and unless a termination signal
\* arrives, the entry point exits with code 0 exactly when the wrapper
\* returned success and with code 1 exactly when the wrapper raised
\* (attempts exhausted, or no such poll definition), never with 1 while
\* attempts remain, and it does not exit while the wrapper is running.  The
\* other exits: code 1 when the construction fails at start, before the
\* wrapper is called, and code 0 on SIGTERM or SIGINT while the wrapper is
\* running.
C22_ExitCodes ==
    /\ (Exited /\ CalledAsByMain) =>
            /\ proc.code \in {0, 1}
            /\ proc.by = "main" =>
                    /\ proc.code = 0 <=> WrapperSucceeded
                    /\ proc.code = 1 <=> WrapperRaised
            /\ proc.by = "uncaught" => proc.code = 1 /\ retry.pc = "notCalled"
            /\ proc.by \in {"SIGTERM", "SIGINT"} =>
                    proc.code = 0 /\ retry.pc \in {"createPoll", "delay"}
            /\ proc.code = 1 =>
                    \/ proc.by = "uncaught"
                    \/ retry.attempts = retry.retries
                    \/ retry.error = Error(MsgConfigNotFound)
    /\ Running => retry.pc \in {"createPoll", "delay"}

\* The entry point has exited with code 1 after three failed attempts.
C22_Witness ==
    /\ Exited
    /\ proc.by = "main"
    /\ proc.code = 1
    /\ retry.retries = DefaultRetries
    /\ retry.outcomes = <<"failed", "failed", "failed">>

SignalExit == Exited /\ proc.by \in Signals
Killed == proc.state = "killed"

\* C23 as stated: a SIGTERM or SIGINT received at any point of the run
\* (before the first attempt, while a createPoll is in flight, during the
\* delay) makes the process exit with code 0.
C23_AsStated ==
    /\ ~Killed
    /\ SignalExit => proc.code = 0

\* C23 amended: a SIGTERM or SIGINT received once the handlers are
\* registered, that is while a createPoll call is in flight or during the
\* inter-attempt delay, makes the process exit with code 0 at once, the
\* handler starting no call, and nothing happens after the process has
\* ended: no further attempt and no further remote call.  A signal that
\* arrives before the first attempt finds no handler (they are registered
\* after the first attempt has started) and ends the process by its default
\* action instead of exit code 0.
C23_SignalExit ==
    /\ [](/\ SignalExit =>
                /\ proc.code = 0
                /\ retry.pc \in {"createPoll", "delay"}
                /\ retry.attempts >= 1
          /\ Killed => retry = RetryNotCalled /\ delivered = <<>>)
    /\ [][/\ (Exited \/ Killed) => UNCHANGED <<proc, retry, delivered>>
          /\ (proc'.state = "exited" /\ proc'.by \in Signals) =>
                /\ proc.state = "running"
                /\ UNCHANGED <<retry, delivered>>
          /\ proc'.state = "killed" =>
                proc.state \in {"start", "killed"}]_vars

\* A signal has ended the process during the delay after a failed attempt
\* that had created an image post.
C23_Witness ==
    /\ SignalExit
    /\ proc.code = 0
    /\ retry.pc = "delay"
    /\ retry.attempts = 1
    /\ ImagePosts(retry.frame.calls) # {}

-----------------------------------------------------------------------------
(* The attempts of one run of createPollWithRetry *)

\* C24: retries use exponential backoff: in a run with at least three
\* attempts every inter-attempt delay is strictly longer than the one before.
C24_ExponentialBackoff ==
    \A k \in 2..Len(retry.delays) : retry.delays[k] > retry.delays[k - 1]

-----------------------------------------------------------------------------
(* cancelScheduledPolls and schedulePoll calls in progress *)

\* C25: cancelScheduledPolls affects only the entries in the registry when it
\* runs: only timers that existed at a cancellation are ever cleared, every
\* timer registered after the last cancellation is in the registry, pending
\* or fired, and a schedulePoll call ends only by its own credential check,
\* so a call still awaiting that check at the cancellation registers its
\* entry afterwards.
C25_CancelOnlyRegistered ==
    /\ \A j \in Timers :
            /\ timers[j].state = "cleared" => j <= cancelledUpTo
            /\ j > cancelledUpTo =>
                    /\ j \in RegistryTimers
                    /\ timers[j].state \in {"pending", "fired"}
    /\ \A k \in Calls :
            /\ scheduleCalls[k].pc # "me" => Len(scheduleCalls[k].delivered) = 1
            /\ (CallVerified(k) /\ scheduleCalls[k].scheduledTime > scheduleCalls[k].checkedAt) =>
                    /\ scheduleCalls[k].pc = "returned"
                    /\ scheduleCalls[k].timer \in Timers

\* The first schedulePoll call was still awaiting its credential check when
\* the second call's entry was registered and then cancelled; the first
\* call's entry was registered after that cancellation, has fired, and its
\* createPoll has issued the identity call and the poll post.
C25_Witness ==
    /\ Len(scheduleCalls) = 2
    /\ scheduleCalls[2].timer = 1
    /\ scheduleCalls[1].timer = 2
    /\ cancelledUpTo = 1
    /\ timers[1].state = "cleared"
    /\ timers[2].state = "fired"
    /\ Len(timers[2].frame.calls) = 2
    /\ 2 \in RegistryTimers

\* C26: across one run of the wrapper at most one poll post is created, and
\* none after it; every attempt is a createPoll of the same definition that
\* starts with the identity call and repeats the file read, the upload and
\* the image post; nothing removes a post, so the image posts of a run number
\* at most the attempts started and can outnumber the poll posts.
C26_PostsPerRun ==
    /\ retry.pollPosts <= 1
    /\ retry.pollPosts = 1 => retry.pc = "returned" /\ retry.frame.pc = "returned"
    /\ retry.imagePosts <= retry.attempts
    /\ Called =>
            /\ Frame.pollData = retry.pollConfig
            /\ Frame.calls[1] = MeCall
            /\ \A k \in 1..Len(Frame.calls) :
                    Frame.calls[k].op \in {"v2.me", "fs.readFile", "v1.uploadMedia", "v2.tweet"}
            /\ \A k \in ImagePosts(Frame.calls) :
                    /\ k = 4
                    /\ Frame.calls[2].op = "fs.readFile"
                    /\ Frame.calls[3].op = "v1.uploadMedia"

\* Three attempts have each created an image post and then failed: three
\* image posts and no poll post.
C26_Witness ==
    /\ retry.pc = "thrown"
    /\ retry.attempts = 3
    /\ retry.imagePosts = 3
    /\ retry.pollPosts = 0

-----------------------------------------------------------------------------
(* The order of the steps of one createPoll *)

\* The step a call belongs to.
Step(call) ==
    IF call.op # "v2.tweet" THEN call.op
    ELSE IF Has(call.params, "poll") THEN "poll post"
    ELSE "image post"

\* The steps of a createPoll that runs to its end, in order: with an image,
\* and without.
StepsWithImage == <<"v2.me", "fs.readFile", "v1.uploadMedia", "image post", "poll post">>
StepsWithoutImage == <<"v2.me", "poll post">>

\* The steps the current createPoll has issued, and the one that failed.
Steps == [k \in 1..Len(Frame.calls) |-> Step(Frame.calls[k])]
FailedSteps == {Steps[k] : k \in {j \in 1..Len(delivered) : ~delivered[j].ok}}

\* C27: within one createPoll the steps run strictly in the order identity
\* call, input validation, file read, media upload, image post, poll post,
\* each issued only when the one before has succeeded, and a failure at any
\* step ends the invocation with no later step issued: a failed file read or
\* upload never results in an image post, a failed upload or image post
\* never in a poll post.
C27_StepOrder ==
    Called =>
        /\ StartsWith(IF HasImage(Frame.pollData) THEN StepsWithImage
                      ELSE StepsWithoutImage, Steps)
        /\ Len(delivered) <= Len(Steps)
        /\ Len(Steps) <= Len(delivered) + 1
        /\ \A k \in 1..Len(delivered) :
                ~delivered[k].ok => Len(Steps) = k /\ Frame.pc = "thrown"
        /\ (Frame.pollData.title = "" \/ Len(Frame.pollData.options) \notin 1..4) =>
                Steps = <<"v2.me">>
        /\ FailedSteps \cap {"fs.readFile", "v1.uploadMedia"} # {} =>
                ImagePosts(Frame.calls) = {}
        /\ FailedSteps \cap {"v1.uploadMedia", "image post"} # {} =>
                PollPosts(Frame.calls) = {}
        /\ Frame.pc = "returned" =>
                Len(delivered) = Len(Steps) /\ FailedSteps = {}

\* The upload of a createPoll has failed after the identity call and the
\* file read.
C27_Witness ==
    /\ Called
    /\ Frame.pc = "thrown"
    /\ Steps = <<"v2.me", "fs.readFile", "v1.uploadMedia">>
    /\ FailedSteps = {"v1.uploadMedia"}

-----------------------------------------------------------------------------
(* The clock reading schedulePoll compares the fire time with *)

\* C28: schedulePoll compares the fire time with the clock read after the
\* credential check has completed: every registered entry has a fire time
\* strictly later than that reading, so its timer's delay is positive, and a
\* call whose fire time was strictly in the future when it was made but is
\* reached while the identity call is pending fails with InvalidSchedule and
\* registers nothing.
C28_ClockReadAfterCheck ==
    \A k \in Calls :
        LET call == scheduleCalls[k]
        IN  /\ call.pc = "returned" =>
                    /\ call.checkedAt >= call.calledAt
                    /\ call.scheduledTime > call.checkedAt
                    /\ call.timer \in Timers
                    /\ timers[call.timer].dueAt = call.scheduledTime
                    /\ timers[call.timer].dueAt - call.checkedAt > 0
            /\ (/\ CallVerified(k)
                /\ call.scheduledTime > call.calledAt
                /\ call.scheduledTime <= call.checkedAt) =>
                    /\ call.pc = "thrown"
                    /\ call.error = Error(MsgMustBeFuture)
                    /\ call.timer = 0
                    /\ \A j \in Timers : ~RegisteredBy(j, k)

\* A call made at time 0 for fire time 1 had its credentials verified at
\* time 1 and was rejected.
C28_Witness ==
    \E k \in Calls :
        /\ scheduleCalls[k].calledAt = 0
        /\ scheduleCalls[k].scheduledTime = 1
        /\ scheduleCalls[k].checkedAt = 1
        /\ CallVerified(k)
        /\ scheduleCalls[k].error = Error(MsgMustBeFuture)
        /\ timers = <<>>

====
